---- MODULE Spec2Model ----
(***************************************************************************)
(* Leftist heap of src/leftist_tree.cc: a node store (the C++ free store), *)
(* a fixed set of LeftistTree handles each holding a root pointer, and the *)
(* public operations isEmpty, insert, getMin, extractMin and mergeWith,    *)
(* all built on the recursive merge.  Every public operation is one atomic *)
(* action (the program is single-threaded and synchronous).                *)
(***************************************************************************)
EXTENDS Integers, Sequences, FiniteSets

\* ---------------------------------------------------------------- bounds
\* Number of node addresses of the free store (live nodes at any one time).
MaxNodes == 4
\* Node budget of the union scenario (SpecUnion).
MaxDepthNodes == 8

\* The LeftistTree handles.  Every operation involves at most two of them.
Heaps == {1, 2}
\* int keys; the code only ever compares two of them.
Keys == {1, 2}
\* Keys of the drain harness.
DrainKeys == {1, 2, 3}

\* nullptr
NULL == 0
\* The return slot of an operation that returns no key.
NoKey == 0

VARIABLES
    mem,    \* the free store: node address -> [key, npl, left, right]
    root,   \* root[h]: LeftistTree::root of handle h
    last,   \* the last public call: its arguments and its outcome
    ins,    \* drain harness: the keys inserted so far, in call order
    out     \* drain harness: the keys extractMin returned so far, in order

vars == <<mem, root, last, ins, out>>

\* ------------------------------------------------------------- the code
\* Node(int k): key(k), npl(0), left(nullptr), right(nullptr)
Node(k) == [key |-> k, npl |-> 0, left |-> NULL, right |-> NULL]

\* new Node: an address of the free store that holds no live node.  The code
\* never compares or orders node addresses, so the lowest free one stands
\* for whichever the allocator returns.
NewAddr(m, limit) == CHOOSE n \in 1..limit : n \notin DOMAIN m /\ \A q \in 1..limit : q \notin DOMAIN m => n <= q

\* the store after new Node(k) was placed at address n
Alloc(m, n, k) == [x \in DOMAIN m \cup {n} |-> IF x = n THEN Node(k) ELSE m[x]]

\* the store after delete n
Free(m, n) == [x \in DOMAIN m \ {n} |-> m[x]]

getNPL(m, node) == IF node = NULL THEN -1 ELSE m[node].npl

swapChildren(m, node) == IF node # NULL THEN [m EXCEPT ![node].left = m[node].right, ![node].right = m[node].left] ELSE m

\* merge with the recursion through the left child instead of the right one
RECURSIVE mergeViaLeft(_, _, _)
mergeViaLeft(m, h1, h2) ==
    IF h1 = NULL THEN [mem |-> m, root |-> h2, path |-> <<>>]
    ELSE IF h2 = NULL THEN [mem |-> m, root |-> h1, path |-> <<>>]
    ELSE LET a == IF m[h1].key > m[h2].key THEN h2 ELSE h1
             b == IF m[h1].key > m[h2].key THEN h1 ELSE h2
             r == mergeViaLeft(m, m[a].left, b)
             m1 == [r.mem EXCEPT ![a].left = r.root]
             m2 == IF getNPL(m1, m1[a].left) < getNPL(m1, m1[a].right) THEN swapChildren(m1, a) ELSE m1
             m3 == [m2 EXCEPT ![a].npl = getNPL(m2, m2[a].right) + 1]
         IN [mem |-> m3, root |-> a, path |-> <<a>> \o r.path]

\* merge without the swap of h1 and h2 on h1->key > h2->key
RECURSIVE mergeNoKeySwap(_, _, _)
mergeNoKeySwap(m, h1, h2) ==
    IF h1 = NULL THEN [mem |-> m, root |-> h2, path |-> <<>>]
    ELSE IF h2 = NULL THEN [mem |-> m, root |-> h1, path |-> <<>>]
    ELSE LET a == h1
             b == h2
             r == mergeNoKeySwap(m, m[a].right, b)
             m1 == [r.mem EXCEPT ![a].right = r.root]
             m2 == IF getNPL(m1, m1[a].left) < getNPL(m1, m1[a].right) THEN swapChildren(m1, a) ELSE m1
             m3 == [m2 EXCEPT ![a].npl = getNPL(m2, m2[a].right) + 1]
         IN [mem |-> m3, root |-> a, path |-> <<a>> \o r.path]

\* merge with the key comparison reversed (h1->key < h2->key)
RECURSIVE mergeMaxFirst(_, _, _)
mergeMaxFirst(m, h1, h2) ==
    IF h1 = NULL THEN [mem |-> m, root |-> h2, path |-> <<>>]
    ELSE IF h2 = NULL THEN [mem |-> m, root |-> h1, path |-> <<>>]
    ELSE LET a == IF m[h1].key < m[h2].key THEN h2 ELSE h1
             b == IF m[h1].key < m[h2].key THEN h1 ELSE h2
             r == mergeMaxFirst(m, m[a].right, b)
             m1 == [r.mem EXCEPT ![a].right = r.root]
             m2 == IF getNPL(m1, m1[a].left) < getNPL(m1, m1[a].right) THEN swapChildren(m1, a) ELSE m1
             m3 == [m2 EXCEPT ![a].npl = getNPL(m2, m2[a].right) + 1]
         IN [mem |-> m3, root |-> a, path |-> <<a>> \o r.path]

\* merge without the swapChildren step
RECURSIVE mergeNoChildSwap(_, _, _)
mergeNoChildSwap(m, h1, h2) ==
    IF h1 = NULL THEN [mem |-> m, root |-> h2, path |-> <<>>]
    ELSE IF h2 = NULL THEN [mem |-> m, root |-> h1, path |-> <<>>]
    ELSE LET a == IF m[h1].key > m[h2].key THEN h2 ELSE h1
             b == IF m[h1].key > m[h2].key THEN h1 ELSE h2
             r == mergeNoChildSwap(m, m[a].right, b)
             m1 == [r.mem EXCEPT ![a].right = r.root]
             m3 == [m1 EXCEPT ![a].npl = getNPL(m1, m1[a].right) + 1]
         IN [mem |-> m3, root |-> a, path |-> <<a>> \o r.path]

\* merge with the npl update taken before the children are swapped
RECURSIVE mergeStaleNpl(_, _, _)
mergeStaleNpl(m, h1, h2) ==
    IF h1 = NULL THEN [mem |-> m, root |-> h2, path |-> <<>>]
    ELSE IF h2 = NULL THEN [mem |-> m, root |-> h1, path |-> <<>>]
    ELSE LET a == IF m[h1].key > m[h2].key THEN h2 ELSE h1
             b == IF m[h1].key > m[h2].key THEN h1 ELSE h2
             r == mergeStaleNpl(m, m[a].right, b)
             m1 == [r.mem EXCEPT ![a].right = r.root]
             m2 == [m1 EXCEPT ![a].npl = getNPL(m1, m1[a].right) + 1]
             m3 == IF getNPL(m2, m2[a].left) < getNPL(m2, m2[a].right) THEN swapChildren(m2, a) ELSE m2
         IN [mem |-> m3, root |-> a, path |-> <<a>> \o r.path]

\* Node* merge(Node* h1, Node* h2) on store m.  The result holds the store
\* after the call, the returned root, and path: the nodes whose right edge a
\* recursive call went through, outermost first (one per recursive call made).
\* a, b are h1, h2 after the swap of line 49.  h1->right is read before the
\* recursive call; every write happens after it returned, on the store it left.
RECURSIVE merge(_, _, _)
merge(m, h1, h2) ==
    IF h1 = NULL THEN [mem |-> m, root |-> h2, path |-> <<>>]
    ELSE IF h2 = NULL THEN [mem |-> m, root |-> h1, path |-> <<>>]
    ELSE LET a == IF m[h1].key > m[h2].key THEN h2 ELSE h1
             b == IF m[h1].key > m[h2].key THEN h1 ELSE h2
             r == merge(m, m[a].right, b)
             m1 == [r.mem EXCEPT ![a].right = r.root]
             m2 == IF getNPL(m1, m1[a].left) < getNPL(m1, m1[a].right) THEN swapChildren(m1, a) ELSE m1
             m3 == [m2 EXCEPT ![a].npl = getNPL(m2, m2[a].right) + 1]
         IN [mem |-> m3, root |-> a, path |-> <<a>> \o r.path]

\* Number of nodes on the right spine of node n in store m (0 for nullptr).
RECURSIVE RightSpineLen(_, _)
RightSpineLen(m, n) == IF n = NULL THEN 0 ELSE 1 + RightSpineLen(m, m[n].right)

\* What a public call records of the merge call it made: the two arguments,
\* the lengths of their right spines when merge was called, and the path.
NoMerge == [called |-> FALSE, h1 |-> NULL, h2 |-> NULL, rs1 |-> 0, rs2 |-> 0, path |-> <<>>]
Merged(m, h1, h2, r) == [called |-> TRUE, h1 |-> h1, h2 |-> h2, rs1 |-> RightSpineLen(m, h1), rs2 |-> RightSpineLen(m, h2), path |-> r.path]

\* LeftistTree(): root(nullptr)
Init ==
    /\ mem = << >>
    /\ root = [h \in Heaps |-> NULL]
    /\ last = [op |-> "new", self |-> 0, other |-> 0, arg |-> NoKey, outcome |-> "ok", ret |-> NoKey, empty |-> TRUE, merged |-> NoMerge, freed |-> NULL]
    /\ ins = <<>>
    /\ out = <<>>

\* The record of a public call: the operation, its receiver, its argument
\* (other handle or key), how it ended ("ok" or the EmptyHeap exception), the
\* key or bool it returned, what its merge call did, the node it deleted.
Call(op, h, o, k, outcome, ret, e, merged, freed) == [op |-> op, self |-> h, other |-> o, arg |-> k, outcome |-> outcome, ret |-> ret, empty |-> e, merged |-> merged, freed |-> freed]

\* bool isEmpty() const
IsEmpty(h) ==
    /\ last' = Call("isEmpty", h, 0, NoKey, "ok", NoKey, root[h] = NULL, NoMerge, NULL)
    /\ UNCHANGED <<mem, root>>

\* void insert(int key), with at most `limit` nodes live
Insert(h, k, limit) ==
    /\ Cardinality(DOMAIN mem) < limit
    /\ LET newNode == NewAddr(mem, limit)
           m0 == Alloc(mem, newNode, k)
           r == merge(m0, root[h], newNode)
       IN /\ mem' = r.mem
          /\ root' = [root EXCEPT ![h] = r.root]
          /\ last' = Call("insert", h, 0, k, "ok", NoKey, FALSE, Merged(m0, root[h], newNode, r), NULL)

\* getMin that reads through the root without the isEmpty() test
GetMinUnchecked(h) ==
    /\ last' = Call("getMin", h, 0, NoKey, "ok", IF root[h] = NULL THEN NoKey ELSE mem[root[h]].key, root[h] = NULL, NoMerge, NULL)
    /\ UNCHANGED <<mem, root>>

\* int getMin() const
GetMin(h) ==
    /\ IF root[h] = NULL
       THEN last' = Call("getMin", h, 0, NoKey, "EmptyHeap", NoKey, TRUE, NoMerge, NULL)
       ELSE last' = Call("getMin", h, 0, NoKey, "ok", mem[root[h]].key, FALSE, NoMerge, NULL)
    /\ UNCHANGED <<mem, root>>

\* extractMin that keeps only the left subtree of the old root
ExtractMinDropRight(h) ==
    IF root[h] = NULL
    THEN /\ last' = Call("extractMin", h, 0, NoKey, "EmptyHeap", NoKey, TRUE, NoMerge, NULL)
         /\ UNCHANGED <<mem, root>>
    ELSE LET oldRoot == root[h]
             minKey == mem[oldRoot].key
             r == merge(mem, mem[oldRoot].left, NULL)
         IN /\ mem' = Free(r.mem, oldRoot)
            /\ root' = [root EXCEPT ![h] = r.root]
            /\ last' = Call("extractMin", h, 0, NoKey, "ok", minKey, FALSE, Merged(mem, mem[oldRoot].left, NULL, r), oldRoot)

\* int extractMin()
ExtractMin(h) ==
    IF root[h] = NULL
    THEN /\ last' = Call("extractMin", h, 0, NoKey, "EmptyHeap", NoKey, TRUE, NoMerge, NULL)
         /\ UNCHANGED <<mem, root>>
    ELSE LET oldRoot == root[h]
             minKey == mem[oldRoot].key
             r == merge(mem, mem[oldRoot].left, mem[oldRoot].right)
         IN /\ mem' = Free(r.mem, oldRoot)
            /\ root' = [root EXCEPT ![h] = r.root]
            /\ last' = Call("extractMin", h, 0, NoKey, "ok", minKey, FALSE, Merged(mem, mem[oldRoot].left, mem[oldRoot].right, r), oldRoot)

\* mergeWith without the this == &otherTree test
MergeWithNoSelfTest(h, o) ==
    LET r == merge(mem, root[h], root[o])
    IN /\ mem' = r.mem
       /\ root' = [[root EXCEPT ![h] = r.root] EXCEPT ![o] = NULL]
       /\ last' = Call("mergeWith", h, o, NoKey, "ok", NoKey, FALSE, Merged(mem, root[h], root[o], r), NULL)

\* mergeWith that leaves otherTree.root as it was
MergeWithKeepOther(h, o) ==
    IF h = o
    THEN /\ last' = Call("mergeWith", h, o, NoKey, "ok", NoKey, FALSE, NoMerge, NULL)
         /\ UNCHANGED <<mem, root>>
    ELSE LET r == merge(mem, root[h], root[o])
         IN /\ mem' = r.mem
            /\ root' = [root EXCEPT ![h] = r.root]
            /\ last' = Call("mergeWith", h, o, NoKey, "ok", NoKey, FALSE, Merged(mem, root[h], root[o], r), NULL)

\* mergeWith that empties otherTree without merging its nodes in
MergeWithDropOther(h, o) ==
    IF h = o
    THEN /\ last' = Call("mergeWith", h, o, NoKey, "ok", NoKey, FALSE, NoMerge, NULL)
         /\ UNCHANGED <<mem, root>>
    ELSE /\ mem' = mem
         /\ root' = [root EXCEPT ![o] = NULL]
         /\ last' = Call("mergeWith", h, o, NoKey, "ok", NoKey, FALSE, NoMerge, NULL)

\* void mergeWith(LeftistTree& otherTree); o = h is the call h.mergeWith(h).
\* root is assigned first and otherTree.root second.
MergeWith(h, o) ==
    IF h = o
    THEN /\ last' = Call("mergeWith", h, o, NoKey, "ok", NoKey, FALSE, NoMerge, NULL)
         /\ UNCHANGED <<mem, root>>
    ELSE LET r == merge(mem, root[h], root[o])
         IN /\ mem' = r.mem
            /\ root' = [[root EXCEPT ![h] = r.root] EXCEPT ![o] = NULL]
            /\ last' = Call("mergeWith", h, o, NoKey, "ok", NoKey, FALSE, Merged(mem, root[h], root[o], r), NULL)

\* ------------------------------------------------------ specifications
DoIsEmpty == \E h \in Heaps : IsEmpty(h) /\ UNCHANGED <<ins, out>>
DoInsert == \E h \in Heaps, k \in Keys : Insert(h, k, MaxNodes) /\ UNCHANGED <<ins, out>>
DoGetMin == \E h \in Heaps : GetMin(h) /\ UNCHANGED <<ins, out>>
DoExtractMin == \E h \in Heaps : ExtractMin(h) /\ UNCHANGED <<ins, out>>
DoMergeWith == \E h \in Heaps, o \in Heaps : MergeWith(h, o) /\ UNCHANGED <<ins, out>>

Next == DoIsEmpty \/ DoInsert \/ DoGetMin \/ DoExtractMin \/ DoMergeWith

\* Any sequence of public calls on the handles.
Spec == Init /\ [][Next]_vars

\* The drain harness of the tests (Test 2, 3, 4, 7): insert keys into the
\* empty heap 1, then  while (!isEmpty()) push_back(extractMin()).
DrainInsert == \E k \in DrainKeys : out = <<>> /\ Insert(1, k, MaxNodes) /\ ins' = Append(ins, k) /\ out' = out
DrainExtract == root[1] # NULL /\ ExtractMin(1) /\ out' = Append(out, last'.ret) /\ ins' = ins

NextDrain == DrainInsert \/ DrainExtract

SpecDrain == Init /\ [][NextDrain]_vars

\* The union scenario of the tests (Test 4) and of runLeftistTreeSample:
\* build heap 1 by inserts, build heap 2 by inserts, unite them by one
\* mergeWith call, then drain by extractMin.  Up to MaxDepthNodes nodes.
Building == last.op \in {"new", "insert"}
UnionInsertFirst == \E k \in Keys : Building /\ root[2] = NULL /\ Insert(1, k, MaxDepthNodes) /\ UNCHANGED <<ins, out>>
UnionInsertSecond == \E k \in Keys : Building /\ Insert(2, k, MaxDepthNodes) /\ UNCHANGED <<ins, out>>
UnionMergeWith == \E h \in Heaps, o \in Heaps : Building /\ MergeWith(h, o) /\ UNCHANGED <<ins, out>>
UnionExtract == \E h \in Heaps : last.op \in {"mergeWith", "extractMin"} /\ root[h] # NULL /\ ExtractMin(h) /\ UNCHANGED <<ins, out>>

NextUnion == UnionInsertFirst \/ UnionInsertSecond \/ UnionMergeWith \/ UnionExtract

SpecUnion == Init /\ [][NextUnion]_vars

\* ------------------------------------------------- measures of a store
\* The child pointers of node n that are not nullptr.
Children(m, n) == IF n \in DOMAIN m THEN {m[n].left, m[n].right} \ {NULL} ELSE {}

\* The nodes reachable from pointer r through child pointers (r included).
RECURSIVE ReachFrom(_, _, _)
ReachFrom(m, frontier, seen) ==
    IF frontier = {} THEN seen
    ELSE LET nxt == UNION {Children(m, n) : n \in frontier} \ (seen \cup frontier)
         IN ReachFrom(m, nxt, seen \cup frontier)
Reach(m, r) == IF r = NULL THEN {} ELSE ReachFrom(m, {r}, {})

\* Number of nodes of the subtree of r.
Size(m, r) == Cardinality(Reach(m, r))

\* Number of nodes of the subtree of r that hold key k.
KeyCount(m, r, k) == Cardinality({n \in Reach(m, r) : m[n].key = k})

\* The nodes on the right spine of n.
RECURSIVE RightSpine(_, _)
RightSpine(m, n) == IF n = NULL THEN {} ELSE {n} \cup RightSpine(m, m[n].right)

\* Null path length by its definition: edges on the shortest path from n to
\* a position with no child; -1 for nullptr.
RECURSIVE NullPathLength(_, _)
NullPathLength(m, n) ==
    IF n = NULL THEN -1
    ELSE LET l == NullPathLength(m, m[n].left)
             r == NullPathLength(m, m[n].right)
         IN 1 + (IF l < r THEN l ELSE r)

\* The least c with 2^c >= x: ceil(log2(x)) for x >= 1.
RECURSIVE CeilLog2From(_, _, _)
CeilLog2From(x, c, pow) == IF pow >= x THEN c ELSE CeilLog2From(x, c + 1, 2 * pow)
CeilLog2(x) == CeilLog2From(x, 0, 1)

\* The nodes owned by handle h.
Owned(h) == Reach(mem, root[h])

Min2(x, y) == IF x < y THEN x ELSE y

\* Number of occurrences of k in sequence q.
Occurrences(q, k) == Cardinality({i \in 1..Len(q) : q[i] = k})

NonDecreasing(q) == \A i \in 1..Len(q) : \A j \in 1..Len(q) : i < j => q[i] <= q[j]

\* --------------------------------------------------------------- claims
\* C1: heap order.  After any sequence of public calls, every node of every
\* heap has a key <= the key of each child it has.
HeapOrder == \A h \in Heaps : \A n \in Owned(h) : \A c \in Children(mem, n) : mem[n].key <= mem[c].key

\* C1 witness: a heap united from two non-empty heaps holds a node with two
\* children, one with an equal key and one with a larger key.
HeapOrderWitness ==
    /\ last.op = "mergeWith" /\ last.self # last.other /\ Len(last.merged.path) >= 1
    /\ \E n \in Owned(last.self) :
         /\ mem[n].left # NULL /\ mem[n].right # NULL
         /\ \E c \in Children(mem, n) : mem[c].key = mem[n].key
         /\ \E c \in Children(mem, n) : mem[c].key > mem[n].key

\* C2: leftist invariant.  Every node of every heap has NPL(left) >=
\* NPL(right) and a stored npl equal to NPL(right) + 1, both for the stored
\* npl fields and for the null path length by definition.
Leftist ==
    \A h \in Heaps : \A n \in Owned(h) :
        /\ getNPL(mem, mem[n].left) >= getNPL(mem, mem[n].right)
        /\ mem[n].npl = getNPL(mem, mem[n].right) + 1
        /\ mem[n].npl = NullPathLength(mem, n)
        /\ NullPathLength(mem, mem[n].left) >= NullPathLength(mem, mem[n].right)

\* C2 witness: a node with npl 1 (two children), a node with a left child
\* only, and a leaf storing npl 0, in one heap.
LeftistWitness ==
    \E h \in Heaps :
        /\ \E n \in Owned(h) : mem[n].npl = 1 /\ mem[n].right # NULL
        /\ \E n \in Owned(h) : mem[n].left # NULL /\ mem[n].right = NULL /\ mem[n].npl = 0
        /\ \E n \in Owned(h) : mem[n].left = NULL /\ mem[n].right = NULL /\ mem[n].npl = 0

\* C3: sorted extraction.  The keys the drain loop has returned are in
\* non-decreasing order, and once the heap is empty they are exactly the
\* inserted keys: as many, and each key as often as it was inserted.
SortedExtraction ==
    /\ NonDecreasing(out)
    /\ root[1] = NULL => /\ Len(out) = Len(ins)
                         /\ \A k \in DrainKeys : Occurrences(out, k) = Occurrences(ins, k)

\* C3 witness: a full drain of at least three keys, inserted neither in
\* ascending order nor without a duplicate.
SortedExtractionWitness ==
    /\ root[1] = NULL /\ Len(out) >= 3 /\ Len(out) = Len(ins)
    /\ ~NonDecreasing(ins)
    /\ \E i \in 1..Len(ins) : \E j \in 1..Len(ins) : i < j /\ ins[i] = ins[j]
    /\ \E i \in 1..Len(ins) : \E j \in 1..Len(ins) : ins[i] # ins[j]

\* C4: extractMin on a non-empty heap returns a key <= every key the heap
\* held, and leaves the heap's keys minus one occurrence of that key.
ExtractMinStep ==
    (last'.op = "extractMin" /\ root[last'.self] # NULL) =>
        LET h == last'.self
        IN /\ last'.outcome = "ok"
           /\ \A n \in Reach(mem, root[h]) : last'.ret <= mem[n].key
           /\ \A k \in Keys : KeyCount(mem', root'[h], k) = KeyCount(mem, root[h], k) - (IF k = last'.ret THEN 1 ELSE 0)
           /\ Size(mem', root'[h]) = Size(mem, root[h]) - 1
           /\ \A g \in Heaps \ {h} : root'[g] = root[g] /\ \A k \in Keys : KeyCount(mem', root'[g], k) = KeyCount(mem, root[g], k)
ExtractMinRemovesMin == [][ExtractMinStep]_vars

\* C4 witness: extractMin has returned from a heap that still holds two or
\* more nodes, one of them with the returned key.
ExtractMinWitness ==
    /\ last.op = "extractMin" /\ last.outcome = "ok"
    /\ Size(mem, root[last.self]) >= 2
    /\ KeyCount(mem, root[last.self], last.ret) >= 1
    /\ \E n \in Owned(last.self) : mem[n].key > last.ret

\* C5: A.mergeWith(B) for distinct A and B leaves in A each key as often as
\* A and B held it together, and leaves B empty.
MergeWithStep ==
    (last'.op = "mergeWith" /\ last'.self # last'.other) =>
        LET a == last'.self
            b == last'.other
        IN /\ last'.outcome = "ok"
           /\ \A k \in Keys : KeyCount(mem', root'[a], k) = KeyCount(mem, root[a], k) + KeyCount(mem, root[b], k)
           /\ Size(mem', root'[a]) = Size(mem, root[a]) + Size(mem, root[b])
           /\ root'[b] = NULL
           /\ Size(mem', root'[b]) = 0
MergeWithUnion == [][MergeWithStep]_vars

\* C5 witness: the receiver and the donor both held nodes, and the receiver
\* now holds a key twice.
MergeWithWitness ==
    /\ last.op = "mergeWith" /\ last.self # last.other
    /\ last.merged.h1 # NULL /\ last.merged.h2 # NULL
    /\ root[last.other] = NULL
    /\ \E k \in Keys : KeyCount(mem, root[last.self], k) >= 2

\* C6: h.mergeWith(h) changes no node and no root, and h is not emptied.
SelfMergeStep ==
    (last'.op = "mergeWith" /\ last'.self = last'.other) =>
        /\ mem' = mem
        /\ root' = root
        /\ last'.outcome = "ok"
        /\ ~last'.merged.called
SelfMergeNoOp == [][SelfMergeStep]_vars

\* C6 witness: a heap of three nodes after merging it with itself (Test 7).
SelfMergeWitness ==
    /\ last.op = "mergeWith" /\ last.self = last.other
    /\ Size(mem, root[last.self]) >= 3

\* C7: getMin and extractMin on an empty heap end in EmptyHeap and change
\* neither the store nor any root; nothing else ever ends in EmptyHeap; an
\* insert into an empty heap leaves the one-node heap of a fresh handle.
EmptyHeapStep ==
    /\ (last'.op \in {"getMin", "extractMin"} /\ root[last'.self] = NULL) =>
          /\ last'.outcome = "EmptyHeap"
          /\ last'.ret = NoKey
          /\ mem' = mem
          /\ root' = root
    /\ last'.outcome = "EmptyHeap" => (last'.op \in {"getMin", "extractMin"} /\ root[last'.self] = NULL)
    /\ last'.outcome \in {"ok", "EmptyHeap"}
    /\ last'.op = "isEmpty" => last'.empty = (root[last'.self] = NULL)
    /\ (last'.op = "insert" /\ root[last'.self] = NULL) =>
          /\ root'[last'.self] # NULL
          /\ mem'[root'[last'.self]] = Node(last'.arg)
EmptyHeapFailure == [][EmptyHeapStep]_vars

\* C7 witness: extractMin has failed on a heap emptied as the donor of a
\* mergeWith or by extractMin, while the other heap holds nodes.
EmptyHeapWitness ==
    /\ last.op = "extractMin" /\ last.outcome = "EmptyHeap"
    /\ root[last.self] = NULL
    /\ \E g \in Heaps : Size(mem, root[g]) >= 2

\* The handles and child slots that point to node n.
Referrers(n) == {<<"root", h>> : h \in {g \in Heaps : root[g] = n}} \cup {<<"left", q>> : q \in {x \in DOMAIN mem : mem[x].left = n}} \cup {<<"right", q>> : q \in {x \in DOMAIN mem : mem[x].right = n}}

\* C8: exclusive ownership.  No pointer dangles; every live node is owned by
\* exactly one handle and is pointed to by exactly one slot (a root or one
\* child slot); no node is its own descendant; the node extractMin deleted
\* is owned by no handle.
ExclusiveOwnership ==
    /\ \A h \in Heaps : root[h] \in DOMAIN mem \cup {NULL}
    /\ \A n \in DOMAIN mem : mem[n].left \in DOMAIN mem \cup {NULL} /\ mem[n].right \in DOMAIN mem \cup {NULL}
    /\ \A n \in DOMAIN mem : Cardinality({h \in Heaps : n \in Owned(h)}) = 1
    /\ \A n \in DOMAIN mem : Cardinality(Referrers(n)) = 1
    /\ \A n \in DOMAIN mem : n \notin UNION {Reach(mem, c) : c \in Children(mem, n)}
    /\ (last.op = "extractMin" /\ last.outcome = "ok") => (last.freed \notin DOMAIN mem /\ \A h \in Heaps : last.freed \notin Owned(h))

\* C8 witness: after a mergeWith of two non-empty heaps the receiver owns
\* three or more nodes and the donor none.
ExclusiveOwnershipWitness ==
    /\ last.op = "mergeWith" /\ last.self # last.other
    /\ last.merged.h1 # NULL /\ last.merged.h2 # NULL
    /\ Size(mem, root[last.self]) >= 3
    /\ root[last.other] = NULL

\* C9: the right spine of every node x of every heap has at most
\* ceil(log2(n + 1)) nodes, n the number of nodes of x's subtree.
RightSpineBound == \A h \in Heaps : \A x \in Owned(h) : RightSpineLen(mem, x) <= CeilLog2(Size(mem, x) + 1)

\* C9 witness: a node whose right spine has two nodes and meets the bound
\* (a subtree of three nodes), in a heap of four.
RightSpineBoundWitness ==
    \E h \in Heaps : /\ Size(mem, root[h]) = 4
                     /\ \E x \in Owned(h) : RightSpineLen(mem, x) = 2 /\ Size(mem, x) = 3

\* The merge call of the last public call, as a step: s is the store merge
\* was called on (for insert, the store holding the new node).
MergeStore == IF last'.op = "insert" THEN Alloc(mem, last'.merged.h2, last'.arg) ELSE mem

\* C10 as stated: the recursive merge calls nested inside a merge call are
\* at most as many as the shorter right spine of its two arguments has
\* nodes.  Counted are only the nested calls that went on to recurse
\* themselves, the reading most favourable to the claim.
MergeDepthWithinShorterSpine == last.merged.called => Len(last.merged.path) - 1 <= Min2(last.merged.rs1, last.merged.rs2)

\* C10 as amended: every recursive call of a merge call goes through the
\* right child of the smaller-keyed root, along the right spines of the two
\* arguments and never twice through one node, and the recursive calls
\* (the one returning at once included) are at most as many as both right
\* spines have nodes together.
MergeDepthStep ==
    last'.merged.called =>
        LET s == MergeStore
            c == last'.merged
            p == c.path
        IN /\ c.rs1 = RightSpineLen(s, c.h1) /\ c.rs2 = RightSpineLen(s, c.h2)
           /\ Len(p) <= c.rs1 + c.rs2
           /\ ((c.h1 = NULL \/ c.h2 = NULL) <=> (p = <<>>))
           /\ \A i \in 1..Len(p) : p[i] \in RightSpine(s, c.h1) \cup RightSpine(s, c.h2)
           /\ \A i \in 1..Len(p) : \A j \in 1..Len(p) : i < j => (p[i] # p[j] /\ s[p[i]].key <= s[p[j]].key)
           /\ p # <<>> => (p[1] \in {c.h1, c.h2} /\ s[p[1]].key <= s[c.h1].key /\ s[p[1]].key <= s[c.h2].key)
           /\ \A i \in 1..(Len(p) - 1) : p[i + 1] = s[p[i]].right \/ p[i + 1] \in (RightSpine(s, c.h1) \cup RightSpine(s, c.h2)) \ RightSpine(s, p[i])
MergeDepthWithinBothSpines == [][MergeDepthStep]_vars

\* C10 witness: a mergeWith whose merge call went through three nodes of
\* the receiver's right spine while the donor's right spine has one node.
MergeDepthWitness ==
    /\ last.op = "mergeWith" /\ last.merged.called
    /\ Len(last.merged.path) = 3
    /\ Min2(last.merged.rs1, last.merged.rs2) = 1

====
